---- MODULE Spec2Model ----
(***************************************************************************)
(* A model of TNPLR/poker (src/poker.h): a pile of cards built from        *)
(* several decks, one hand per player, and the operations shuffle, deal,   *)
(* draw, play and sort_player_card of class pk::poker.                     *)
(*                                                                         *)
(* Vectors are sequences; the C++ index x is the TLA+ index x + 1.         *)
(* player_card is a function on 0 .. players-1, as in the source.          *)
(***************************************************************************)
EXTENDS Integers, Sequences, FiniteSets

VARIABLES
    pc,           \* where the program stands: "new" (no table yet), "idle"
                  \* (between calls), "shuffle_for" / "shuffle_do" /
                  \* "shuffle_while" (inside poker::shuffle), "dead" (the
                  \* constructor threw), "undefined" (undefined behaviour ran)
    players,      \* poker::players
    pile,         \* poker::pile, the draw pile
    player_card,  \* poker::player_card, the hands
    ctor,         \* the arguments the constructor was called with
    last,         \* the last call: its name and how it ended ("ok", the
                  \* exception thrown, "running", or "undefined")
    time,         \* the parameter of poker::shuffle
    sz, i, a, b,  \* the locals of poker::shuffle
    entry,        \* the pile as the running call of shuffle found it
    calls,        \* how many calls were made on the table
    ret           \* what the last call returned, as a sequence of cards: the
                  \* card of draw, the deck of suit_subdeck, <<>> for void

vars == <<pc, players, pile, player_card, ctor, last, time, sz, i, a, b,
          entry, calls, ret>>

(***************************************************************************)
(* Bounds of the exploration.                                              *)
(***************************************************************************)
\* Tables are built from 0 .. MaxDeck decks.
MaxDeck == 1
\* Tables have 0 .. MaxPlayer players; player numbers 0 .. MaxPlayer are used.
MaxPlayer == 4
\* At most MaxCalls calls are made on one table after its construction.
MaxCalls == 3
\* A deck taken on its own holds 0 .. MaxLen cards.
MaxLen == 3

(***************************************************************************)
(* Program constants.                                                      *)
(***************************************************************************)
\* The unsigned int arithmetic (card_per_person *= players, ++i, sz) is
\* modelled without its wrap at 2^32: every number explored stays far below.
\* card::suit is a bit-field of 2 bits, card::number one of 4 bits.
SuitBits == 2
NumberBits == 4
\* The constructor's loops: suits 0 .. 3, ranks 1 .. 13.
SuitCount == 4
RankCount == 13
\* The rank and the suit of a joker as the constructor builds it.
JokerNumber == 14
DIAMOND == 1

(***************************************************************************)
(* struct card                                                             *)
(***************************************************************************)
\* card::card(_suit, _number): the bit-fields keep the low bits.
card(_suit, _number) ==
    [suit |-> _suit % (2 ^ SuitBits), number |-> _number % (2 ^ NumberBits)]

\* Every value a struct card can hold.
AnyCard == [suit : 0 .. (2 ^ SuitBits) - 1, number : 0 .. (2 ^ NumberBits) - 1]

\* card::operator==
card_eq(l, r) == l.number = r.number /\ l.suit = r.suit

(***************************************************************************)
(* class deck                                                              *)
(***************************************************************************)
push_back(dk, c) == Append(dk, c)

\* Only called on a non-empty deck in the model: on an empty one it is
\* undefined behaviour, which the callers below branch on.
pop_back(dk) == SubSeq(dk, 1, Len(dk) - 1)

\* A faulty back that reads the first card; C11 tells it from the back of
\* the code.
front(dk) == dk[1]

back(dk) == dk[Len(dk)]

empty(dk) == Len(dk) = 0

\* std::find(pile.begin(), pile.end(), c): the C++ index of the first card
\* equal to c, or Len(dk) for end().
find(dk, c) ==
    LET hits == {x \in 1 .. Len(dk) : card_eq(dk[x], c)}
    IN  IF hits = {} THEN Len(dk)
        ELSE (CHOOSE x \in hits : \A y \in hits : x <= y) - 1

\* A faulty erase that takes the next card away as well; C5 tells it from
\* the erase of the code.
erase_two(dk, x) == SubSeq(dk, 1, x) \o SubSeq(dk, x + 3, Len(dk))

\* std::vector::erase(it) at C++ index x.
erase(dk, x) == SubSeq(dk, 1, x) \o SubSeq(dk, x + 2, Len(dk))

\* A faulty remove that returns silently when the card is not found; C6
\* tells it from the remove of the code.
remove_silent(dk, c) ==
    LET it == find(dk, c)
    IN  IF it = Len(dk)
        THEN [pile |-> dk, thrown |-> FALSE]
        ELSE [pile |-> SubSeq(dk, 1, it) \o SubSeq(dk, it + 2, Len(dk)),
              thrown |-> FALSE]

\* deck::remove: the deck after the call and whether invalid_argument is thrown.
remove(dk, c) ==
    LET it == find(dk, c)
    IN  IF it = Len(dk)
        THEN [pile |-> dk, thrown |-> TRUE]
        ELSE [pile |-> erase(dk, it), thrown |-> FALSE]

(***************************************************************************)
(* poker::poker                                                            *)
(***************************************************************************)
\* The loop over j: card{i, j} for j = from .. 13.
RECURSIVE rank_loop(_, _)
rank_loop(s, j) ==
    IF j <= RankCount THEN <<card(s, j)>> \o rank_loop(s, j + 1) ELSE <<>>

\* The loop over i: the suits from s up to 3.
RECURSIVE suit_loop(_)
suit_loop(s) ==
    IF s < SuitCount THEN rank_loop(s, 1) \o suit_loop(s + 1) ELSE <<>>

\* A faulty pass that pushes one joker only; C2 tells it from the pass of
\* the code.
one_deck_one_joker(joker) ==
    suit_loop(0) \o
    (IF joker THEN <<card(DIAMOND, JokerNumber)>> ELSE <<>>)

\* One pass of the loop over k: 52 cards and, with joker, two jokers.
one_deck(joker) ==
    suit_loop(0) \o
    (IF joker
     THEN <<card(DIAMOND, JokerNumber), card(DIAMOND, JokerNumber)>>
     ELSE <<>>)

\* The loop over k.
RECURSIVE deck_loop(_, _)
deck_loop(k, joker) ==
    IF k > 0 THEN deck_loop(k - 1, joker) \o one_deck(joker) ELSE <<>>

\* A call as the variable last records it.
Call(op, result) == [op |-> op, result |-> result]

poker(deck, player, joker) ==
    /\ pc = "new"
    /\ ctor' = [deck |-> deck, player |-> player, joker |-> joker]
    /\ IF player = 0
       THEN /\ pc' = "dead"
            /\ last' = Call("poker", "invalid_argument")
            /\ UNCHANGED <<players, pile, player_card>>
       ELSE /\ pc' = "idle"
            /\ players' = player
            /\ pile' = deck_loop(deck, joker)
            /\ player_card' = [p \in 0 .. player - 1 |-> <<>>]
            /\ last' = Call("poker", "ok")
    /\ UNCHANGED <<time, sz, i, a, b, entry, calls, ret>>

(***************************************************************************)
(* Undefined behaviour: pile.back() and pile.pop_back() on an empty        *)
(* vector.  The build either faults at the read, or reads some bytes as a  *)
(* card and goes on; the model stops at the first such step.               *)
(***************************************************************************)
\* The bytes the read is explored to find: no card, a card of the deck, and
\* a card no deck holds.
GarbageCards == {card(0, 0), card(3, 13), card(2, 15)}

\* The hands after the read of the empty pile, for the hand it was pushed to:
\* untouched when the read faults, with the bytes read pushed otherwise.
EmptyPileRead(hands, player_no) ==
    {hands} \cup
    {[hands EXCEPT ![player_no] = push_back(@, g)] : g \in GarbageCards}

(***************************************************************************)
(* A faulty draw that takes the card off the pile before it looks at the   *)
(* player number; C10 tells it from the draw of the code.                  *)
(***************************************************************************)
draw_pop_first(player_no) ==
    /\ pc = "idle"
    /\ calls < MaxCalls
    /\ calls' = calls + 1
    /\ IF empty(pile)
       THEN /\ pc' = "undefined"
            /\ last' = Call("draw", "undefined")
            /\ UNCHANGED <<pile, player_card>>
       ELSE IF player_no >= players
       THEN /\ pile' = pop_back(pile)
            /\ last' = Call("draw", "out_of_range")
            /\ UNCHANGED <<pc, player_card>>
       ELSE /\ player_card' =
                  [player_card EXCEPT ![player_no] = push_back(@, back(pile))]
            /\ pile' = pop_back(pile)
            /\ last' = Call("draw", "ok")
            /\ UNCHANGED pc
    /\ ret' = <<>>
    /\ UNCHANGED <<players, ctor, time, sz, i, a, b, entry>>

(***************************************************************************)
(* poker::draw                                                             *)
(***************************************************************************)
draw(player_no) ==
    /\ pc = "idle"
    /\ calls < MaxCalls
    /\ calls' = calls + 1
    /\ IF player_no >= players
       THEN /\ last' = Call("draw", "out_of_range")
            /\ ret' = <<>>
            /\ UNCHANGED <<pc, pile, player_card>>
       ELSE IF empty(pile)
       THEN /\ pc' = "undefined"
            /\ last' = Call("draw", "undefined")
            /\ player_card' \in EmptyPileRead(player_card, player_no)
            /\ ret' = IF player_card' = player_card THEN <<>>
                      ELSE <<back(player_card'[player_no])>>
            /\ UNCHANGED <<pile>>
       ELSE /\ player_card' =
                  [player_card EXCEPT ![player_no] = push_back(@, back(pile))]
            /\ pile' = pop_back(pile)
            /\ ret' = <<back(player_card'[player_no])>>
            /\ last' = Call("draw", "ok")
            /\ UNCHANGED pc
    /\ UNCHANGED <<players, ctor, time, sz, i, a, b, entry>>

(***************************************************************************)
(* poker::deal                                                             *)
(***************************************************************************)
\* The numbers deal is called with.
DealCounts == {0, 1, 13, 26}

\* The locals of deal, the pile and the hands when the loop starts; ub tells
\* that the loop read pile.back() on an empty pile.
deal_entry ==
    [pile |-> pile, player_card |-> player_card, player_no |-> 0,
     card_count |-> 0, ub |-> FALSE]

\* A faulty pass that never moves on to the next player; C3 tells it from
\* the pass of the code.
deal_body_one_player(st) ==
    [pile |-> pop_back(st.pile),
     player_card |-> [st.player_card EXCEPT
                          ![st.player_no] = push_back(@, back(st.pile))],
     player_no |-> st.player_no,
     card_count |-> st.card_count + 1,
     ub |-> FALSE]

\* One pass of the body of the for loop, and ++card_count.
deal_body(st) ==
    [pile |-> pop_back(st.pile),
     player_card |-> [st.player_card EXCEPT
                          ![st.player_no] = push_back(@, back(st.pile))],
     player_no |-> IF st.player_no + 1 >= players THEN 0 ELSE st.player_no + 1,
     card_count |-> st.card_count + 1,
     ub |-> FALSE]

\* The for loop of deal from the state st on, up to its end or to the pass
\* that reads an empty pile.
RECURSIVE deal_loop(_, _)
deal_loop(st, total) ==
    IF ~(st.card_count < total) THEN st
    ELSE IF empty(st.pile) THEN [st EXCEPT !.ub = TRUE]
    ELSE deal_loop(deal_body(st), total)

deal(card_per_person) ==
    /\ pc = "idle"
    /\ calls < MaxCalls
    /\ calls' = calls + 1
    /\ \E r \in {deal_loop(deal_entry, card_per_person * players)} :
           /\ pile' = r.pile
           /\ IF r.ub
              THEN /\ pc' = "undefined"
                   /\ player_card' \in EmptyPileRead(r.player_card, r.player_no)
                   /\ last' = Call("deal", "undefined")
              ELSE /\ player_card' = r.player_card
                   /\ last' = Call("deal", "ok")
                   /\ UNCHANGED pc
    /\ ret' = <<>>
    /\ UNCHANGED <<players, ctor, time, sz, i, a, b, entry>>

(***************************************************************************)
(* poker::play                                                             *)
(***************************************************************************)
\* The cards play is called with: the king of spades, a joker, and
\* card{3, 0}, which the int 3 of play(2, 3) converts to.
PlayCards == {card(3, 13), card(1, 14), card(3, 0)}

\* A faulty play that puts the card played on the pile; C20 tells it from
\* the play of the code.
play_to_pile(player_no, c) ==
    /\ pc = "idle"
    /\ calls < MaxCalls
    /\ calls' = calls + 1
    /\ IF player_no >= players
       THEN /\ last' = Call("play", "out_of_range")
            /\ UNCHANGED <<pile, player_card>>
       ELSE \E r \in {remove(player_card[player_no], c)} :
                /\ player_card' = [player_card EXCEPT ![player_no] = r.pile]
                /\ pile' = IF r.thrown THEN pile ELSE push_back(pile, c)
                /\ last' = Call("play", IF r.thrown THEN "invalid_argument" ELSE "ok")
    /\ ret' = <<>>
    /\ UNCHANGED <<pc, players, ctor, time, sz, i, a, b, entry>>

play(player_no, c) ==
    /\ pc = "idle"
    /\ calls < MaxCalls
    /\ calls' = calls + 1
    /\ IF player_no >= players
       THEN /\ last' = Call("play", "out_of_range")
            /\ UNCHANGED player_card
       ELSE \E r \in {remove(player_card[player_no], c)} :
                /\ player_card' = [player_card EXCEPT ![player_no] = r.pile]
                /\ last' = Call("play", IF r.thrown THEN "invalid_argument" ELSE "ok")
    /\ ret' = <<>>
    /\ UNCHANGED <<pc, players, pile, ctor, time, sz, i, a, b, entry>>

(***************************************************************************)
(* deck::sort and poker::sort_player_card                                  *)
(***************************************************************************)
\* Faulty lambdas that compare the numbers as they are, the ace lowest; C12
\* tells them from the lambdas of the code.
comp_ace_low(mode, x, y) ==
    IF mode = "rank_first_descending"
    THEN IF x.number # y.number THEN x.number > y.number ELSE x.suit > y.suit
    ELSE IF x.suit = y.suit THEN x.number > y.number ELSE x.suit > y.suit

\* The lambdas of deck::sort.
comp(mode, x, y) ==
    IF mode = "rank_first_descending"
    THEN IF x.number # y.number
         THEN x.number = 1 \/ (y.number # 1 /\ x.number > y.number)
         ELSE x.suit > y.suit
    ELSE IF x.suit = y.suit
         THEN x.number = 1 \/ (y.number # 1 /\ x.number > y.number)
         ELSE x.suit > y.suit

\* x put into the ordered s before the first card that comp puts it before.
insert(mode, x, s) ==
    LET later == {k \in 1 .. Len(s) : comp(mode, x, s[k])}
        at == IF later = {} THEN Len(s) + 1
              ELSE CHOOSE k \in later : \A m \in later : k <= m
    IN  SubSeq(s, 1, at - 1) \o <<x>> \o SubSeq(s, at, Len(s))

\* The cards dk[st.k + 1 ..] put one by one into the ordered st.sorted.
RECURSIVE sort_from(_, _, _)
sort_from(mode, dk, st) ==
    IF st.k >= Len(dk) THEN st.sorted
    ELSE sort_from(mode, dk,
                   [sorted |-> insert(mode, dk[st.k + 1], st.sorted),
                    k |-> st.k + 1])

\* std::sort(pile.begin(), pile.end(), comp): the cards in the order of comp.
sort(mode, dk) == sort_from(mode, dk, [sorted |-> <<>>, k |-> 0])

sort_player_card ==
    /\ pc = "idle"
    /\ calls < MaxCalls
    /\ calls' = calls + 1
    /\ player_card' =
           [p \in DOMAIN player_card |->
                sort("rank_first_descending", player_card[p])]
    /\ last' = Call("sort_player_card", "ok")
    /\ ret' = <<>>
    /\ UNCHANGED <<pc, players, pile, ctor, time, sz, i, a, b, entry>>

(***************************************************************************)
(* poker::shuffle, one step per draw of a random number                    *)
(***************************************************************************)
\* floor(unif(generator)) for unif(0.0, size): an index below size; with
\* size = 0 the distribution has the one value 0.0.
\* The draws explored are the two ends and the middle of the range.
unif(size) == IF size = 0 THEN {0} ELSE {0, size \div 2, size - 1}

\* A faulty swap that copies pile[y] over pile[x] and loses pile[x]; C9
\* tells it from the swap of the code.
swap_overwrite(dk, x, y) == [dk EXCEPT ![x + 1] = dk[y + 1]]

\* std::swap(pile[x], pile[y])
swap(dk, x, y) == [dk EXCEPT ![x + 1] = dk[y + 1], ![y + 1] = dk[x + 1]]

\* The numbers of swaps shuffle is called with.
ShuffleTimes == {0, 1, 2}

\* The call: sz = pile.size(), i = 0.
shuffle(_time) ==
    /\ pc = "idle"
    /\ calls < MaxCalls
    /\ calls' = calls + 1
    /\ time' = _time
    /\ sz' = Len(pile)
    /\ i' = 0
    /\ pc' = "shuffle_for"
    /\ entry' = pile
    /\ last' = Call("shuffle", "running")
    /\ ret' = <<>>
    /\ UNCHANGED <<players, pile, player_card, ctor, a, b>>

\* i < time: draw a and enter the do-while loop; otherwise return.
shuffle_for ==
    /\ pc = "shuffle_for"
    /\ IF i < time
       THEN /\ a' \in unif(sz)
            /\ pc' = "shuffle_do"
            /\ UNCHANGED <<last, time, sz, i, b, entry>>
       ELSE /\ pc' = "idle"
            /\ last' = [last EXCEPT !.result = "ok"]
            /\ time' = 0
            /\ sz' = 0
            /\ i' = 0
            /\ a' = 0
            /\ b' = 0
            /\ entry' = <<>>
    /\ UNCHANGED <<players, pile, player_card, ctor, calls, ret>>

\* The body of the do-while loop: draw b.
shuffle_do ==
    /\ pc = "shuffle_do"
    /\ b' \in unif(sz)
    /\ pc' = "shuffle_while"
    /\ UNCHANGED <<players, pile, player_card, ctor, last, time, sz, i, a,
                   entry, calls, ret>>

\* while (a == b): draw b again; otherwise swap and ++i.
shuffle_while ==
    /\ pc = "shuffle_while"
    /\ IF a = b
       THEN /\ pc' = "shuffle_do"
            /\ UNCHANGED <<pile, i>>
       ELSE /\ pile' = swap(pile, a, b)
            /\ i' = i + 1
            /\ pc' = "shuffle_for"
    /\ UNCHANGED <<players, player_card, ctor, last, time, sz, a, b,
                   entry, calls, ret>>

Init ==
    /\ pc = "new"
    /\ players = 0
    /\ pile = <<>>
    /\ player_card = <<>>
    /\ ctor = [deck |-> 0, player |-> 0, joker |-> FALSE]
    /\ last = Call("none", "ok")
    /\ time = 0
    /\ sz = 0
    /\ i = 0
    /\ a = 0
    /\ b = 0
    /\ entry = <<>>
    /\ calls = 0
    /\ ret = <<>>

Next ==
    \/ \E deck \in 0 .. MaxDeck, player \in 0 .. MaxPlayer, joker \in BOOLEAN :
           poker(deck, player, joker)
    \/ \E _time \in ShuffleTimes : shuffle(_time)
    \/ shuffle_for
    \/ shuffle_do
    \/ shuffle_while
    \/ \E player_no \in 0 .. MaxPlayer : draw(player_no)
    \/ \E player_no \in 0 .. MaxPlayer, c \in PlayCards : play(player_no, c)
    \/ \E card_per_person \in DealCounts : deal(card_per_person)
    \/ sort_player_card

Spec == Init /\ [][Next]_vars

(***************************************************************************)
(* The program under fair scheduling: a call of shuffle that has started   *)
(* keeps running, and a generator that can draw b # a does so sooner or    *)
(* later (the draws are independent and uniform).                          *)
(***************************************************************************)
FairSpec ==
    /\ Spec
    /\ WF_vars(shuffle_for)
    /\ WF_vars(shuffle_do)
    /\ WF_vars(shuffle_while)
    /\ SF_vars(shuffle_do /\ b' # a)

(***************************************************************************)
(* class deck on its own: a deck of a few cards (a hand reached through    *)
(* poker::operator[], or any deck a caller builds with push_back), and the *)
(* calls of deck::sort and deck::suit_subdeck on it.  pile is deck::pile,  *)
(* entry the deck as the last call found it, ret the deck returned.        *)
(***************************************************************************)
\* The cards the decks are built from: the aces of spades and hearts, the
\* kings of spades, diamonds and clubs, the twos of hearts and diamonds and
\* a joker.
DeckCards ==
    {card(3, 1), card(2, 1), card(3, 13), card(1, 13), card(0, 13),
     card(2, 2), card(1, 2), card(DIAMOND, JokerNumber)}

\* Every deck of at most MaxLen of these cards, equal cards included.
Decks == UNION {[1 .. n -> DeckCards] : n \in 0 .. MaxLen}

SortModes == {"rank_first_descending", "suit_first_descending"}

\* What std::sort requires of its comparison on the values of the range: a
\* strict weak ordering.  Sorting with any other comparison is undefined
\* behaviour.
strict_weak_ordering(mode, dk) ==
    LET vals == {dk[x] : x \in 1 .. Len(dk)}
        equiv(x, y) == ~comp(mode, x, y) /\ ~comp(mode, y, x)
    IN  /\ \A x \in vals : ~comp(mode, x, x)
        /\ \A x, y, z \in vals :
               /\ comp(mode, x, y) /\ comp(mode, y, z) => comp(mode, x, z)
               /\ equiv(x, y) /\ equiv(y, z) => equiv(x, z)

\* The decks std::sort may leave when its requirement is broken: the deck
\* untouched (the run faults, or a checking build aborts it), the deck in the
\* order the comparisons gave, and, when two cards of the deck are each
\* before the other so that the unguarded loops of std::sort can leave the
\* range, the deck with bytes from outside exchanged into it.
SortUndefined(mode, dk) ==
    {dk, sort(mode, dk)} \cup
    (IF \E x, y \in 1 .. Len(dk) :
            x # y /\ comp(mode, dk[x], dk[y]) /\ comp(mode, dk[y], dk[x])
     THEN {[dk EXCEPT ![1] = g] : g \in GarbageCards}
     ELSE {})

\* deck::sort(mode) called on the deck.
deck_sort(mode) ==
    /\ pc = "deck"
    /\ entry' = pile
    /\ ret' = <<>>
    /\ IF strict_weak_ordering(mode, pile)
       THEN /\ pile' = sort(mode, pile)
            /\ last' = Call(mode, "ok")
            /\ UNCHANGED pc
       ELSE /\ pile' \in SortUndefined(mode, pile)
            /\ last' = Call(mode, "undefined")
            /\ pc' = "undefined"
    /\ UNCHANGED <<players, player_card, ctor, time, sz, i, a, b, calls>>

\* The numbers suit_subdeck is called with: the four suits and a number
\* that is no suit.  The parameter is an int, not cut to two bits.
SubdeckSuits == {0, 1, 2, 3, 4}

\* The for_each of suit_subdeck from card st.k on: the cards of the suit are
\* pushed to st.dktmp in turn.
RECURSIVE subdeck_from(_, _, _)
subdeck_from(dk, suit, st) ==
    IF st.k >= Len(dk) THEN st.dktmp
    ELSE subdeck_from(dk, suit,
                      [dktmp |-> IF dk[st.k + 1].suit = suit
                                 THEN push_back(st.dktmp, dk[st.k + 1])
                                 ELSE st.dktmp,
                       k |-> st.k + 1])

\* A faulty suit_subdeck that cuts its parameter to the two bits of
\* card::suit; C17 tells it from the suit_subdeck of the code.
suit_subdeck_two_bits(dk, suit) ==
    subdeck_from(dk, suit % (2 ^ SuitBits), [dktmp |-> <<>>, k |-> 0])

\* deck::suit_subdeck
suit_subdeck(dk, suit) == subdeck_from(dk, suit, [dktmp |-> <<>>, k |-> 0])

\* deck::suit_subdeck(suit) called on the deck.
deck_suit_subdeck(suit) ==
    /\ pc = "deck"
    /\ entry' = pile
    /\ ret' = suit_subdeck(pile, suit)
    /\ last' = Call("suit_subdeck", "ok")
    /\ UNCHANGED <<pc, players, pile, player_card, ctor, time, sz, i, a, b,
                   calls>>

DeckInit ==
    /\ pc = "deck"
    /\ players = 0
    /\ pile \in Decks
    /\ player_card = <<>>
    /\ ctor = [deck |-> 0, player |-> 0, joker |-> FALSE]
    /\ last = Call("none", "ok")
    /\ time = 0
    /\ sz = 0
    /\ i = 0
    /\ a = 0
    /\ b = 0
    /\ entry = <<>>
    /\ calls = 0
    /\ ret = <<>>

DeckNext ==
    \/ \E mode \in SortModes : deck_sort(mode)
    \/ \E suit \in SubdeckSuits : deck_suit_subdeck(suit)

DeckSpec == DeckInit /\ [][DeckNext]_vars

(***************************************************************************)
(* Notions the properties are stated with.                                 *)
(***************************************************************************)
\* How many cards of dk are the card c.
CountOf(dk, c) == Cardinality({x \in 1 .. Len(dk) : dk[x] = c})

\* The same cards, each as many times: the positions where s and t agree
\* count alike on both sides, so the cards are counted where they differ.
SameCards(s, t) ==
    /\ Len(s) = Len(t)
    /\ LET diff == {x \in 1 .. Len(s) : s[x] # t[x]}
       IN  \A c \in {s[x] : x \in diff} :
               Cardinality({x \in diff : s[x] = c}) =
                   Cardinality({x \in diff : t[x] = c})

\* The cards in the hands of players 0 .. n-1.
RECURSIVE HandTotal(_)
HandTotal(n) == IF n = 0 THEN 0 ELSE Len(player_card[n - 1]) + HandTotal(n - 1)

\* The cards the constructor was asked for.
InitialCount == ctor.deck * 52 + (IF ctor.joker THEN 2 * ctor.deck ELSE 0)

Joker == [suit |-> 1, number |-> 14]
SpadeKing == [suit |-> 3, number |-> 13]

\* The positions of poker::shuffle.
ShufflePcs == {"shuffle_for", "shuffle_do", "shuffle_while"}

\* Player n holds a card equal to c.
Held(n, c) == \E x \in 1 .. Len(player_card[n]) : player_card[n][x] = c

(***************************************************************************)
(* C1.  Conservation: whenever the table stands between or inside calls    *)
(* (no undefined behaviour has run), the size of the pile plus the sizes   *)
(* of all hands is the number of cards the table was built with.           *)
(* The code breaks it: play erases the card and puts it nowhere.           *)
(***************************************************************************)
C1_Conservation ==
    pc \in {"idle"} \cup ShufflePcs => Len(pile) + HandTotal(players) = InitialCount

(***************************************************************************)
(* C2.  Construction: right after poker(d, p, j), with p >= 1 the pile has *)
(* d*52 + (j ? 2*d : 0) cards, each (suit 0..3, rank 1..13) exactly d      *)
(* times and, with j, 2*d jokers (rank 14, suit diamond), and there are    *)
(* exactly p hands, all empty; with p = 0 the constructor throws           *)
(* invalid_argument.                                                       *)
(***************************************************************************)
C2_Construction ==
    last.op = "poker" =>
        IF ctor.player = 0
        THEN pc = "dead" /\ last.result = "invalid_argument"
        ELSE /\ pc = "idle"
             /\ last.result = "ok"
             /\ players = ctor.player
             /\ Len(pile) = ctor.deck * 52 + (IF ctor.joker THEN 2 * ctor.deck ELSE 0)
             /\ \A s \in 0 .. 3, r \in 1 .. 13 :
                    CountOf(pile, [suit |-> s, number |-> r]) = ctor.deck
             /\ CountOf(pile, Joker) = IF ctor.joker THEN 2 * ctor.deck ELSE 0
             /\ DOMAIN player_card = 0 .. ctor.player - 1
             /\ \A p \in DOMAIN player_card : player_card[p] = <<>>

\* A table of two or more players built from a deck with jokers.
C2_Witness ==
    /\ last = Call("poker", "ok")
    /\ ctor.deck >= 1
    /\ ctor.joker
    /\ ctor.player >= 2
    /\ pc = "idle"

(***************************************************************************)
(* C3.  Deal: when the pile holds at least k*p cards, deal(k) returns      *)
(* normally; the pile keeps its first Len - k*p cards in order; every hand *)
(* keeps its cards and gains exactly k; the i-th card dealt (i = 0, 1, ..) *)
(* is the card that was i-th from the end of the pile and goes to player   *)
(* i mod p, so the t-th card player q gains is the one that was            *)
(* (t-1)*p + q from the end.                                               *)
(***************************************************************************)
DealPost(k) ==
    LET n == Len(pile)
    IN  /\ pc' = "idle"
        /\ last' = Call("deal", "ok")
        /\ pile' = SubSeq(pile, 1, n - k * players)
        /\ DOMAIN player_card' = DOMAIN player_card
        /\ \A q \in 0 .. players - 1 :
               /\ Len(player_card'[q]) = Len(player_card[q]) + k
               /\ SubSeq(player_card'[q], 1, Len(player_card[q])) = player_card[q]
               /\ \A t \in 1 .. k :
                      player_card'[q][Len(player_card[q]) + t] =
                          pile[n - ((t - 1) * players + q)]

C3_Deal ==
    [][\A k \in DealCounts :
           last'.op = "deal" /\ Len(pile) >= k * players /\ deal(k) =>
               DealPost(k)]_vars

\* One deck dealt out to four players by deal(13): 13 cards each and an
\* empty pile; the first card of player q is the one that was q from the end.
C3_Witness ==
    /\ last = Call("deal", "ok")
    /\ ctor.deck = 1
    /\ ~ctor.joker
    /\ players = 4
    /\ calls = 1
    /\ pile = <<>>
    /\ \A q \in 0 .. 3 : Len(player_card[q]) = 13
    /\ player_card[0][1] = SpadeKing
    /\ player_card[3][1] = [suit |-> 3, number |-> 10]

(***************************************************************************)
(* C4.  Deal with too few cards: when the pile holds fewer than k*p cards, *)
(* deal(k) stops when the pile is exhausted, never reads an empty pile,    *)
(* and ends with an empty pile and the cards of the pile handed out round  *)
(* robin.  The code breaks it: the loop runs k*p times whatever the pile   *)
(* holds and reads pile.back() on the empty pile.                          *)
(***************************************************************************)
C4_DealStopsEarly ==
    [][\A k \in DealCounts :
           last'.op = "deal" /\ Len(pile) < k * players /\ deal(k) =>
               /\ pc' = "idle"
               /\ last' = Call("deal", "ok")
               /\ pile' = <<>>
               /\ \A q \in 0 .. players - 1 :
                      /\ SubSeq(player_card'[q], 1, Len(player_card[q])) =
                             player_card[q]
                      /\ \A x \in 0 .. Len(pile) - 1 :
                             x % players = q =>
                                 player_card'[q][Len(player_card[q]) + (x \div players) + 1]
                                     = pile[Len(pile) - x]]_vars

(***************************************************************************)
(* C5.  Play of a held card: for i < players and c equal to a card of      *)
(* hand i, play(i, c) returns normally, hand i loses exactly one card, the *)
(* first one equal to c, the other cards keep their order, and hand i      *)
(* holds one card equal to c fewer than before.                            *)
(* The stronger C5_PlayHeldNoLongerFound, that c is no longer found in     *)
(* hand i afterwards, fails for a hand that holds c twice.                 *)
(***************************************************************************)
\* Hand n after the step is hand n before it without its first card c.
FirstRemoved(n, c) ==
    \E x \in 1 .. Len(player_card[n]) :
        /\ player_card[n][x] = c
        /\ \A y \in 1 .. x - 1 : player_card[n][y] # c
        /\ player_card'[n] =
               SubSeq(player_card[n], 1, x - 1) \o
               SubSeq(player_card[n], x + 1, Len(player_card[n]))

C5_PlayHeld ==
    [][\A n \in 0 .. MaxPlayer, c \in PlayCards :
           last'.op = "play" /\ n < players /\ Held(n, c) /\ play(n, c) =>
               /\ last' = Call("play", "ok")
               /\ Len(player_card'[n]) = Len(player_card[n]) - 1
               /\ FirstRemoved(n, c)
               /\ CountOf(player_card'[n], c) = CountOf(player_card[n], c) - 1]_vars

C5_PlayHeldNoLongerFound ==
    [][\A n \in 0 .. MaxPlayer, c \in PlayCards :
           last'.op = "play" /\ n < players /\ Held(n, c) /\ play(n, c) =>
               /\ Len(player_card'[n]) = Len(player_card[n]) - 1
               /\ FirstRemoved(n, c)
               /\ ~Held(n, c)']_vars

\* The one player of a table with jokers got both, and has played one: the
\* other is still in the hand.
C5_Witness ==
    /\ last = Call("play", "ok")
    /\ players = 1
    /\ ctor.deck = 1
    /\ ctor.joker
    /\ CountOf(pile, Joker) = 0
    /\ CountOf(player_card[0], Joker) = 1
    /\ CountOf(player_card[0], SpadeKing) = 1
    /\ calls = 2

(***************************************************************************)
(* C6.  Play of an absent card: for i < players and c equal to no card of  *)
(* hand i, play(i, c) throws invalid_argument and leaves every hand and    *)
(* the pile as they were.                                                  *)
(***************************************************************************)
C6_PlayAbsent ==
    [][\A n \in 0 .. MaxPlayer, c \in PlayCards :
           last'.op = "play" /\ n < players /\ ~Held(n, c) /\ play(n, c) =>
               /\ last' = Call("play", "invalid_argument")
               /\ pc' = "idle"
               /\ UNCHANGED <<pile, player_card, players>>]_vars

\* A play refused on a table whose hands hold cards.
C6_Witness ==
    /\ last = Call("play", "invalid_argument")
    /\ pc = "idle"
    /\ \A q \in DOMAIN player_card : Len(player_card[q]) >= 13

(***************************************************************************)
(* C7.  Draw on an empty pile: draw(i) with i < players on an empty pile   *)
(* fails with an explicit error and leaves the pile and every hand as they *)
(* were.  The code breaks it: it reads pile.back() and calls               *)
(* pile.pop_back() on the empty vector, which is undefined behaviour.      *)
(***************************************************************************)
C7_DrawEmptyFails ==
    [][\A n \in 0 .. MaxPlayer :
           last'.op = "draw" /\ n < players /\ pile = <<>> /\ draw(n) =>
               /\ pc' = "idle"
               /\ last'.op = "draw"
               /\ last'.result \notin {"ok", "running", "undefined"}
               /\ UNCHANGED <<pile, player_card>>]_vars

(***************************************************************************)
(* C8.  Shuffle on a small pile: a call shuffle(R) with R >= 1 on a pile   *)
(* of fewer than 2 cards returns.  The code breaks it: a and b are both 0  *)
(* at every draw, so the do-while loop never ends.                         *)
(***************************************************************************)
C8_ShuffleSmallReturns ==
    (pc = "shuffle_for" /\ sz < 2 /\ time >= 1) ~> (pc = "idle")

(***************************************************************************)
(* C9.  Shuffle is a permutation: on a pile of n >= 2 cards, every step of *)
(* a call of shuffle keeps the hands, the size of the pile and how many    *)
(* times each card is in it; a step that changes the pile exchanges the    *)
(* cards at two distinct indices a, b in [0, n); and when the call returns *)
(* the pile holds the cards it held when the call began.                   *)
(***************************************************************************)
C9_ShufflePermutation ==
    [][(pc \in ShufflePcs \/ pc' \in ShufflePcs) /\ Len(pile) >= 2 =>
           /\ player_card' = player_card
           /\ Len(pile') = Len(pile)
           /\ SameCards(pile', pile)
           /\ pile' # pile =>
                  /\ pc = "shuffle_while"
                  /\ a # b
                  /\ a \in 0 .. Len(pile) - 1
                  /\ b \in 0 .. Len(pile) - 1
                  /\ pile'[a + 1] = pile[b + 1]
                  /\ pile'[b + 1] = pile[a + 1]
                  /\ \A x \in 1 .. Len(pile) :
                         x \notin {a + 1, b + 1} => pile'[x] = pile[x]
           /\ pc' = "idle" => SameCards(pile', entry)]_vars

\* A call shuffle(2) has returned and left the pile in another order.
C9_Witness ==
    /\ last = Call("shuffle", "ok")
    /\ pc = "idle"
    /\ ctor.deck = 1
    /\ calls = 1
    /\ pile # deck_loop(ctor.deck, ctor.joker)

(***************************************************************************)
(* C10.  Player number out of range: draw(i) and play(i, c) with           *)
(* i >= players throw out_of_range and leave the pile and every hand as    *)
(* they were, whatever the pile holds and whatever c is.                   *)
(***************************************************************************)
C10_OutOfRange ==
    [][\A n \in 0 .. MaxPlayer :
           n >= players /\ (draw(n) \/ \E c \in PlayCards : play(n, c)) =>
               /\ last'.result = "out_of_range"
               /\ pc' = "idle"
               /\ UNCHANGED <<pile, player_card, players>>]_vars

\* A draw refused for its player number although the pile is empty.
C10_Witness ==
    /\ last = Call("draw", "out_of_range")
    /\ pile = <<>>
    /\ ctor.deck = 1
    /\ Len(player_card[0]) = 52

(***************************************************************************)
(* C11.  Draw effect: draw(i) with i < players on a non-empty pile returns *)
(* normally; the pile loses exactly its last card and keeps the others in  *)
(* order; hand i is what it was with that same card appended; the card     *)
(* returned is that card.                                                  *)
(***************************************************************************)
C11_DrawEffect ==
    [][\A n \in 0 .. MaxPlayer :
           last'.op = "draw" /\ n < players /\ pile # <<>> /\ draw(n) =>
               /\ pc' = "idle"
               /\ last' = Call("draw", "ok")
               /\ Len(pile') = Len(pile) - 1
               /\ \A x \in 1 .. Len(pile') : pile'[x] = pile[x]
               /\ Len(player_card'[n]) = Len(player_card[n]) + 1
               /\ \A x \in 1 .. Len(player_card[n]) :
                      player_card'[n][x] = player_card[n][x]
               /\ player_card'[n][Len(player_card[n]) + 1] = pile[Len(pile)]
               /\ ret' = <<pile[Len(pile)]>>]_vars

\* After deal(1) to two players, player 0 has drawn the jack of spades, the
\* third card from the end of the deck, behind the king dealt before.
C11_Witness ==
    /\ last = Call("draw", "ok")
    /\ ctor.deck = 1
    /\ ~ctor.joker
    /\ players = 2
    /\ Len(pile) = 49
    /\ player_card[0] = <<SpadeKing, [suit |-> 3, number |-> 11]>>
    /\ ret = <<[suit |-> 3, number |-> 11]>>

(***************************************************************************)
(* C12.  Ace-high rank-first order: deck::sort(rank_first_descending)      *)
(* returns normally and leaves the deck so that for every two positions    *)
(* x < y the card at x is not below the card at y: the ace (rank 1) is     *)
(* above every other rank, the other ranks go by their number (14, 13,     *)
(* ..., 2), and of two cards of one rank the one of the higher suit is not *)
(* below the other.  An ace stands before a king.                          *)
(***************************************************************************)
\* The place of a rank in the ace-high order: the ace above the 4-bit ranks.
AceHigh(c) == IF c.number = 1 THEN 2 ^ NumberBits ELSE c.number

RankFirstNotBelow(c, d) ==
    \/ AceHigh(c) > AceHigh(d)
    \/ AceHigh(c) = AceHigh(d) /\ c.suit >= d.suit

C12_RankFirstOrder ==
    [][last'.op = "rank_first_descending" /\ deck_sort("rank_first_descending") =>
           /\ last' = Call("rank_first_descending", "ok")
           /\ \A x, y \in 1 .. Len(pile') :
                  /\ x < y => RankFirstNotBelow(pile'[x], pile'[y])
                  /\ pile'[x].number = 1 /\ pile'[y].number = 13 => x < y]_vars

\* The king of spades, the ace of hearts and a joker, sorted: ace, joker,
\* king.
C12_Witness ==
    /\ last = Call("rank_first_descending", "ok")
    /\ entry = <<SpadeKing, [suit |-> 2, number |-> 1], Joker>>
    /\ pile = <<[suit |-> 2, number |-> 1], Joker, SpadeKing>>

(***************************************************************************)
(* C13.  sort_player_card sorts every hand in rank-first ascending order:  *)
(* after the call the ranks of every hand are non-decreasing from the      *)
(* first card to the last (A, 2, 3, ..., K), and the pile is as it was.    *)
(* The code breaks it: sort_player_card calls deck::sort() with its        *)
(* default mode, rank_first_descending, ace first and then K down to 2.    *)
(***************************************************************************)
C13_SortPlayerCardAscending ==
    [][last'.op = "sort_player_card" /\ sort_player_card =>
           /\ pile' = pile
           /\ \A p \in DOMAIN player_card' :
                  \A x, y \in 1 .. Len(player_card'[p]) :
                      x < y => player_card'[p][x].number <=
                                   player_card'[p][y].number]_vars

(***************************************************************************)
(* C14.  Sort is an idempotent permutation: for both modes and every deck, *)
(* deck::sort(mode) returns normally and leaves the same cards, each as    *)
(* many times; called again with the same mode on the deck it has sorted,  *)
(* it leaves the identical sequence.                                       *)
(* The code breaks it: the suit-first lambda answers true for an ace       *)
(* compared with an equal ace, so it is no strict weak ordering and        *)
(* std::sort on a deck that holds an ace is undefined behaviour.           *)
(***************************************************************************)
C14_SortIdempotentPermutation ==
    [][\A mode \in SortModes :
           last'.op = mode /\ deck_sort(mode) =>
               /\ last' = Call(mode, "ok")
               /\ SameCards(pile', pile)
               /\ last = Call(mode, "ok") => pile' = pile]_vars

(***************************************************************************)
(* C15.  Monotone drain: after construction no step makes the pile larger; *)
(* a step of deal or draw makes it smaller by the number of cards the      *)
(* hands gain, and every other step leaves its size; a hand grows only in  *)
(* a step of deal or draw and shrinks only in a play that returns          *)
(* normally.                                                               *)
(* The code breaks it: deal and draw on an empty pile read pile.back() of  *)
(* an empty vector, and the bytes read are pushed to a hand as a card that *)
(* the pile never gave.                                                    *)
(***************************************************************************)
\* The cards in the hands 0 .. n-1 of hands.
RECURSIVE CardsHeld(_, _)
CardsHeld(hands, n) ==
    IF n = 0 THEN 0 ELSE Len(hands[n - 1]) + CardsHeld(hands, n - 1)

C15_MonotoneDrain ==
    [][pc # "new" =>
           /\ Len(pile') <= Len(pile)
           /\ IF calls' # calls /\ last'.op \in {"deal", "draw"}
              THEN Len(pile) - Len(pile') =
                       CardsHeld(player_card', players) -
                       CardsHeld(player_card, players)
              ELSE Len(pile') = Len(pile)
           /\ \A p \in DOMAIN player_card :
                  /\ Len(player_card'[p]) > Len(player_card[p]) =>
                         calls' # calls /\ last'.op \in {"deal", "draw"}
                  /\ Len(player_card'[p]) < Len(player_card[p]) =>
                         calls' # calls /\ last' = Call("play", "ok")]_vars

(***************************************************************************)
(* C16.  Valid cards only: in every state after construction every card   *)
(* of the pile and of every hand has a suit in 0 .. 3 and a rank in        *)
(* 1 .. 14, rank 14 only on a table built with jokers; no hand holds a     *)
(* card of rank 0, so a play of a rank-0 card finds no match.              *)
(* The code breaks it: deal and draw on an empty pile push the bytes that  *)
(* pile.back() of an empty vector reads to a hand, whatever they are.      *)
(***************************************************************************)
ValidCard(c) ==
    /\ c.suit \in 0 .. 3
    /\ c.number \in 1 .. 14
    /\ c.number = 14 => ctor.joker

C16_ValidCardsOnly ==
    pc \notin {"new", "dead"} =>
        /\ \A x \in 1 .. Len(pile) : ValidCard(pile[x])
        /\ \A p \in DOMAIN player_card :
               \A x \in 1 .. Len(player_card[p]) :
                   /\ ValidCard(player_card[p][x])
                   /\ player_card[p][x].number # 0

(***************************************************************************)
(* C17.  suit_subdeck: deck::suit_subdeck(s) returns normally a deck that  *)
(* holds exactly the cards of the deck whose suit field is s, in the order *)
(* they have in the deck, and leaves the deck as it was; the jokers,       *)
(* stored with the suit diamond, are all in suit_subdeck(DIAMOND) and in   *)
(* no other; and the subdecks of the four suits share the cards of the     *)
(* deck out: every card of the deck is in the subdeck of exactly one suit, *)
(* as many times as in the deck.                                           *)
(***************************************************************************)
\* The positions of dk that hold a card of suit s.
SuitPositions(dk, s) == {x \in 1 .. Len(dk) : dk[x].suit = s}

\* sub holds the cards of dk at the positions in pos, in their order.
Selects(sub, dk, pos) ==
    /\ Len(sub) = Cardinality(pos)
    /\ \A x \in pos : sub[Cardinality({q \in pos : q <= x})] = dk[x]

C17_SuitSubdeck ==
    [][\A s \in SubdeckSuits :
           last'.op = "suit_subdeck" /\ deck_suit_subdeck(s) =>
               /\ last' = Call("suit_subdeck", "ok")
               /\ pc' = pc
               /\ pile' = pile
               /\ Selects(ret', pile, SuitPositions(pile, s))
               /\ CountOf(ret', Joker) =
                      IF s = DIAMOND THEN CountOf(pile, Joker) ELSE 0
               /\ Len(suit_subdeck(pile, 0)) + Len(suit_subdeck(pile, 1)) +
                  Len(suit_subdeck(pile, 2)) + Len(suit_subdeck(pile, 3)) =
                      Len(pile)
               /\ \A x \in 1 .. Len(pile) :
                      \E t \in 0 .. 3 :
                          /\ CountOf(suit_subdeck(pile, t), pile[x]) =
                                 CountOf(pile, pile[x])
                          /\ \A u \in (0 .. 3) \ {t} :
                                 CountOf(suit_subdeck(pile, u), pile[x]) = 0]_vars

\* The diamonds of a deck of a joker, the king of spades and the two of
\* diamonds: the joker and the two.
C17_Witness ==
    /\ last = Call("suit_subdeck", "ok")
    /\ pile = <<Joker, SpadeKing, [suit |-> 1, number |-> 2]>>
    /\ ret = <<Joker, [suit |-> 1, number |-> 2]>>

(***************************************************************************)
(* C18.  Suit-first order: deck::sort(suit_first_descending) returns       *)
(* normally and leaves the deck so that for every two positions x < y the  *)
(* suit of the card at x is not below the suit of the card at y, and of    *)
(* two cards of one suit the one at x is not below the other in the        *)
(* ace-high order of the ranks.                                            *)
(* The code breaks it for a deck that holds an ace: the suit-first lambda  *)
(* is no strict weak ordering on it, and std::sort is undefined behaviour. *)
(***************************************************************************)
C18_SuitFirstOrder ==
    [][last'.op = "suit_first_descending" /\ deck_sort("suit_first_descending") =>
           /\ last' = Call("suit_first_descending", "ok")
           /\ \A x, y \in 1 .. Len(pile') :
                  x < y =>
                      \/ pile'[x].suit > pile'[y].suit
                      \/ /\ pile'[x].suit = pile'[y].suit
                         /\ AceHigh(pile'[x]) >= AceHigh(pile'[y])]_vars

(***************************************************************************)
(* C19.  Both lambdas of deck::sort are strict weak orderings: on the      *)
(* cards of any deck, comp(a, a) is false for every card a, comp(a, b) and *)
(* comp(b, a) are never both true, and comp(a, b) with comp(b, c) gives    *)
(* comp(a, c).                                                             *)
(* The code breaks it: the suit-first lambda answers true for an ace       *)
(* compared with an equal ace.                                             *)
(***************************************************************************)
C19_StrictWeakOrderings ==
    \A mode \in SortModes :
        \A x, y, z \in {pile[k] : k \in 1 .. Len(pile)} \cup
                       {entry[k] : k \in 1 .. Len(entry)} :
            /\ ~comp(mode, x, x)
            /\ ~(comp(mode, x, y) /\ comp(mode, y, x))
            /\ comp(mode, x, y) /\ comp(mode, y, z) => comp(mode, x, z)

(***************************************************************************)
(* C20.  Hand isolation: a step of draw(i) or play(i, c), whether it       *)
(* returns, throws or runs into undefined behaviour, leaves the hand of    *)
(* every player j # i as it was; a step of play leaves the pile; a step of *)
(* shuffle leaves every hand; sort_player_card leaves the pile and, in     *)
(* every hand, the same cards each as many times; and in no step does a    *)
(* hand lose a card that another hand gains.                               *)
(***************************************************************************)
\* Hand j loses a card c in the step and hand k gains one.
Passes(j, k) ==
    \E c \in {player_card[j][x] : x \in 1 .. Len(player_card[j])} :
        /\ CountOf(player_card'[j], c) < CountOf(player_card[j], c)
        /\ CountOf(player_card'[k], c) > CountOf(player_card[k], c)

\* Hand j after the step is hand j before it with cards appended, or as it
\* was: it has lost no card.
Extended(j) ==
    /\ Len(player_card'[j]) >= Len(player_card[j])
    /\ SubSeq(player_card'[j], 1, Len(player_card[j])) = player_card[j]

====
